---------------------------- MODULE Spec2Model ----------------------------
(***************************************************************************)
(* Model of src/src/index.ts (chat-with-webpage): the link normalisation   *)
(* of scrapeWebPage, chunkText, the ingest / insertIntoDB pipeline against *)
(* the vector store, and the context assembly of chat.                     *)
(*                                                                         *)
(* A string is a sequence of characters, each a one-character TLA+ string. *)
(* Two multi-character tokens are used: "http://" (the scheme prefix of a  *)
(* URL) and the run tokens "H" and "B", each standing for RunLen letters.  *)
(***************************************************************************)
EXTENDS Integers, Sequences, FiniteSets, Bags, TLC

VARIABLES
    \* chunkText called on its own
    text, maxChunkSize, chunks, chunkPc,
    \* the anchor loop of scrapeWebPage
    internalLinks, externalLinks, anchorCount, warned,
    \* the caller, ingest, insertIntoDB, chat (prompt: <<>> until the chat model
    \* is called, then the one-element sequence of what it is called with)
    pc, url, headString, headChunks, bodyChunks, phase, idx, logged,
    ingestCalls, scrapeCount, pending, store, unhandled, results, prompt

chunkVars == <<text, maxChunkSize, chunks, chunkPc>>
linkVars  == <<internalLinks, externalLinks, anchorCount, warned>>
ingestVars == <<url, headString, headChunks, bodyChunks, phase, idx, logged,
                ingestCalls, scrapeCount>>
chatVars  == <<results, prompt>>
mainVars  == <<pc, ingestVars, pending, store, unhandled, chatVars>>
vars == <<chunkVars, linkVars, mainVars>>

---------------------------------------------------------------------------
(* Bounds of the model *)

\* longest text handed to chunkText on its own
MaxLen == 6
\* largest maxChunkSize handed to chunkText on its own
MaxChunk == 4
\* longest href of an anchor
MaxHref == 4
\* anchors on one page
MaxAnchors == 2
\* calls of ingest by the caller
MaxIngests == 2
\* distinct values of the id's suffix, `${Date.now()}-${Math.random()...}`
NumSuffix == 2
\* letters a run token stands for
RunLen == 500

None == "none"

---------------------------------------------------------------------------
(* Strings *)

SeqsUpTo(S, n) == UNION {[1..k -> S] : k \in 0..n}

Max(S) == CHOOSE x \in S : \A y \in S : y <= x

\* JavaScript's \s, over the characters of the model
IsWs(c) == c \in {" ", "\n"}

\* [.!?]
IsPunct(c) == c \in {".", "!", "?"}

\* string.length: a run token counts for the letters it stands for
CharLen(c) == IF c \in {"H", "B"} THEN RunLen ELSE 1

RECURSIVE StrLen(_)
StrLen(s) == IF s = <<>> THEN 0 ELSE CharLen(Head(s)) + StrLen(Tail(s))

\* the last index of the whitespace run that starts at i (i - 1 when there is none)
RECURSIVE WsRunEnd(_, _)
WsRunEnd(s, i) ==
    IF i <= Len(s) /\ IsWs(s[i]) THEN WsRunEnd(s, i + 1) ELSE i - 1

\* String.prototype.trim
RECURSIVE TrimLeft(_)
TrimLeft(s) == IF s # <<>> /\ IsWs(Head(s)) THEN TrimLeft(Tail(s)) ELSE s

RECURSIVE TrimRight(_)
TrimRight(s) ==
    IF s # <<>> /\ IsWs(s[Len(s)]) THEN TrimRight(SubSeq(s, 1, Len(s) - 1)) ELSE s

Trim(s) == TrimRight(TrimLeft(s))

\* Array.prototype.join("\n")
RECURSIVE JoinNl(_)
JoinNl(ss) ==
    IF ss = <<>> THEN <<>>
    ELSE IF Len(ss) = 1 THEN ss[1]
    ELSE ss[1] \o <<"\n">> \o JoinNl(Tail(ss))

---------------------------------------------------------------------------
(* chunkText *)

\* /\n\s*\n/ tried at q: the index of the last character matched, 0 for no match.
\* \s* is greedy, so the match runs to the last "\n" of the whitespace run.
ParagraphMatchEnd(s, q) ==
    IF s[q] # "\n" THEN 0
    ELSE LET cands == {j \in (q + 1)..WsRunEnd(s, q + 1) : s[j] = "\n"}
         IN  IF cands = {} THEN 0 ELSE Max(cands)

\* text.split(/\n\s*\n/): p starts the current piece, q is the scan position
RECURSIVE SplitParagraphsFrom(_, _, _)
SplitParagraphsFrom(s, p, q) ==
    IF q > Len(s) THEN <<SubSeq(s, p, Len(s))>>
    ELSE LET e == ParagraphMatchEnd(s, q)
         IN  IF e = 0 THEN SplitParagraphsFrom(s, p, q + 1)
             ELSE <<SubSeq(s, p, q - 1)>> \o SplitParagraphsFrom(s, e + 1, e + 1)

SplitParagraphs(s) == SplitParagraphsFrom(s, 1, 1)

\* /(?<=[.!?])\s+/ tried at q: the index of the last character matched, 0 for no match
SentenceMatchEnd(s, q) ==
    IF q > 1 /\ IsPunct(s[q - 1]) /\ IsWs(s[q]) THEN WsRunEnd(s, q) ELSE 0

\* paragraph.split(/(?<=[.!?])\s+/)
RECURSIVE SplitSentencesFrom(_, _, _)
SplitSentencesFrom(s, p, q) ==
    IF q > Len(s) THEN <<SubSeq(s, p, Len(s))>>
    ELSE LET e == SentenceMatchEnd(s, q)
         IN  IF e = 0 THEN SplitSentencesFrom(s, p, q + 1)
             ELSE <<SubSeq(s, p, q - 1)>> \o SplitSentencesFrom(s, e + 1, e + 1)

SplitSentences(s) == SplitSentencesFrom(s, 1, 1)

\* the state of chunkText's loops: chunks, currentChunk, currentSize
ChunkState0 == [chunks |-> <<>>, cur |-> <<>>, size |-> 0]

\* Flush with a slip: the running chunk is reset without being pushed
FlushDropping(st, len, max) ==
    IF st.size + len > max /\ st.cur # <<>>
    THEN [chunks |-> st.chunks, cur |-> <<>>, size |-> 0]
    ELSE st

\* "if (currentSize + x.length > maxChunkSize && currentChunk !== '')": push and reset
Flush(st, len, max) ==
    IF st.size + len > max /\ st.cur # <<>>
    THEN [chunks |-> Append(st.chunks, Trim(st.cur)), cur |-> <<>>, size |-> 0]
    ELSE st

\* the body of "for (const sentence of sentences)"
SentenceStep(st, sentence, max) ==
    LET f == Flush(st, StrLen(sentence), max)
    IN  [chunks |-> f.chunks,
         cur    |-> f.cur \o (IF f.cur # <<>> THEN <<" ">> ELSE <<>>) \o sentence,
         size   |-> f.size + StrLen(sentence)]

RECURSIVE SentenceLoop(_, _, _)
SentenceLoop(st, sentences, max) ==
    IF sentences = <<>> THEN st
    ELSE SentenceLoop(SentenceStep(st, Head(sentences), max), Tail(sentences), max)

\* the body of "for (const paragraph of paragraphs)"
ParagraphStep(st, paragraph, max) ==
    LET f == Flush(st, StrLen(paragraph), max)
        g == SentenceLoop(f, SplitSentences(paragraph), max)
    IN  IF g.cur # <<>>
        THEN [g EXCEPT !.cur = g.cur \o <<"\n", "\n">>, !.size = g.size + 2]
        ELSE g

RECURSIVE ParagraphLoop(_, _, _)
ParagraphLoop(st, paragraphs, max) ==
    IF paragraphs = <<>> THEN st
    ELSE ParagraphLoop(ParagraphStep(st, Head(paragraphs), max), Tail(paragraphs), max)

chunkText(t, max) ==
    LET st == ParagraphLoop(ChunkState0, SplitParagraphs(t), max)
    IN  IF Trim(st.cur) # <<>> THEN Append(st.chunks, Trim(st.cur)) ELSE st.chunks


---------------------------------------------------------------------------
(* The pages of the model *)

\* the urls the caller passes to ingest; the last is not an http url
Urls == {"http://a", "http://b", "ftp://c"}

\* url.startsWith('http')
StartsWithHttp(u) == u \in {"http://a", "http://b"}

\* what a fetch of u can return: headJson is JSON.stringify(head) of the page,
\* body the text of its <body> before the whitespace is collapsed
PagesAt(u) ==
    IF u = "http://a"
    THEN {[headJson |-> <<"H", ".", " ", "H">>,
           body |-> <<" ", "B", " ", "\n", "B", " ">>]}
    ELSE IF u = "http://b"
    THEN {[headJson |-> <<"H">>, body |-> <<"\n">>]}
    ELSE {}

---------------------------------------------------------------------------
(* Values of the variables a specification does not use *)

ChunkOff == text = <<>> /\ maxChunkSize = 1 /\ chunks = <<>> /\ chunkPc = "off"

LinkOff ==
    internalLinks = {} /\ externalLinks = {} /\ anchorCount = 0 /\ warned = FALSE

\* the caller is idle, no page has been ingested, the collection is empty
MainStart ==
    /\ url = None /\ headString = <<>> /\ headChunks = <<>> /\ bodyChunks = <<>>
    /\ phase = "head" /\ idx = 0 /\ logged = FALSE /\ ingestCalls = 0
    /\ scrapeCount = [u \in Urls |-> 0]
    /\ pending = EmptyBag /\ store = {} /\ unhandled = FALSE
    /\ results = <<>> /\ prompt = <<>>

MainOff == pc = "off" /\ MainStart

---------------------------------------------------------------------------
(* chunkText called on its own: the text and maxChunkSize are the inputs *)

ChunkAlphabet == {"a", ".", " ", "\n"}

\* the call chunkText(text, maxChunkSize)
ChunkCall ==
    /\ chunkPc = "call"
    /\ chunks' = chunkText(text, maxChunkSize)
    /\ chunkPc' = "done"
    /\ UNCHANGED <<text, maxChunkSize, linkVars, mainVars>>


InitChunk ==
    /\ text \in SeqsUpTo(ChunkAlphabet, MaxLen)
    /\ maxChunkSize \in 1..MaxChunk
    /\ chunks = <<>>
    /\ chunkPc = "call"
    /\ LinkOff
    /\ MainOff

NextChunk == ChunkCall

SpecChunk == InitChunk /\ [][NextChunk]_vars


---------------------------------------------------------------------------
(* The anchor loop of scrapeWebPage, for a page at http://a *)

\* the characters of an href; "http://" can only be its first token, and a host
\* is a run of "a"
HrefAlphabet == {"/", "#", "?", "a"}

Hrefs ==
    {h \in SeqsUpTo(HrefAlphabet \cup {"http://"}, MaxHref) :
        \A i \in 2..Len(h) : h[i] # "http://"}

\* baseUrl.origin
BaseOrigin == <<"http://", "a">>

Invalid == <<"invalid">>

RECURSIVE DropSlashes(_)
DropSlashes(s) == IF s # <<>> /\ Head(s) = "/" THEN DropSlashes(Tail(s)) ELSE s

\* the length of the run of host characters that s starts with
RECURSIVE HostLen(_)
HostLen(s) == IF s # <<>> /\ Head(s) = "a" THEN 1 + HostLen(Tail(s)) ELSE 0

\* an http url's path is never empty: "/" stands before the query or the fragment
WithPath(rest) ==
    IF rest = <<>> \/ Head(rest) \in {"?", "#"} THEN <<"/">> \o rest ELSE rest

\* does the href name its own host ("http://..." or "//...")
HasAuthority(href) ==
    \/ Head(href) = "http://"
    \/ Len(href) >= 2 /\ href[1] = "/" /\ href[2] = "/"

\* new URL(href, baseUrl.origin).toString(), for a non-empty href: Invalid when
\* the constructor throws (an empty host)
Resolve(href) ==
    IF HasAuthority(href)
    THEN LET s == DropSlashes(IF Head(href) = "http://" THEN Tail(href) ELSE href)
             n == HostLen(s)
         IN  IF n = 0 THEN Invalid
             ELSE <<"http://">> \o SubSeq(s, 1, n) \o WithPath(SubSeq(s, n + 1, Len(s)))
    ELSE IF Head(href) = "/" THEN BaseOrigin \o href
    ELSE BaseOrigin \o <<"/">> \o href

\* absoluteUrl.origin of a resolved url
Origin(resolved) == <<"http://">> \o SubSeq(resolved, 2, 1 + HostLen(Tail(resolved)))

\* .replace(/#.*$/, '')
RECURSIVE StripFragment(_)
StripFragment(s) ==
    IF s = <<>> \/ Head(s) = "#" THEN <<>> ELSE <<Head(s)>> \o StripFragment(Tail(s))

\* .replace(/\/$/, '')
StripTrailingSlash(s) ==
    IF s # <<>> /\ s[Len(s)] = "/" THEN SubSeq(s, 1, Len(s) - 1) ELSE s

\* normalizedUrl
NormalizeUrl(resolved) == StripTrailingSlash(StripFragment(resolved))

\* an anchor with no href, or an empty one: "if (!href) return"
AnchorNoHref ==
    /\ anchorCount < MaxAnchors
    /\ anchorCount' = anchorCount + 1
    /\ UNCHANGED <<internalLinks, externalLinks, warned, chunkVars, mainVars>>

\* new URL throws on the href: the catch warns and the loop goes on
AnchorInvalid(href) ==
    /\ anchorCount < MaxAnchors
    /\ href # <<>>
    /\ Resolve(href) = Invalid
    /\ warned' = TRUE
    /\ anchorCount' = anchorCount + 1
    /\ UNCHANGED <<internalLinks, externalLinks, chunkVars, mainVars>>

\* the href resolves: its normalised url joins internalLinks or externalLinks
AnchorLink(href) ==
    /\ anchorCount < MaxAnchors
    /\ href # <<>>
    /\ Resolve(href) # Invalid
    /\ LET absoluteUrl == Resolve(href)
       IN  IF Origin(absoluteUrl) = BaseOrigin
           THEN /\ internalLinks' = internalLinks \cup {NormalizeUrl(absoluteUrl)}
                /\ externalLinks' = externalLinks
           ELSE /\ externalLinks' = externalLinks \cup {NormalizeUrl(absoluteUrl)}
                /\ internalLinks' = internalLinks
    /\ anchorCount' = anchorCount + 1
    /\ UNCHANGED <<warned, chunkVars, mainVars>>

InitLinks == LinkOff /\ ChunkOff /\ MainOff

NextLinks ==
    \/ AnchorNoHref
    \/ \E href \in Hrefs : AnchorInvalid(href)
    \/ \E href \in Hrefs : AnchorLink(href)

SpecLinks == InitLinks /\ [][NextLinks]_vars

---------------------------------------------------------------------------
(* ingest and insertIntoDB, called by a caller that ingests urls in turn *)

\* the maxChunkSize ingest passes to chunkText
IngestChunkSize == 1000

\* .replace(/\s+/g, ' '): every run of whitespace becomes one space
RECURSIVE CollapseWs(_)
CollapseWs(s) ==
    IF s = <<>> THEN <<>>
    ELSE IF IsWs(Head(s))
    THEN <<" ">> \o CollapseWs(SubSeq(s, WsRunEnd(s, 1) + 1, Len(s)))
    ELSE <<Head(s)>> \o CollapseWs(Tail(s))

\* the body scrapeWebPage returns
CleanBody(s) == Trim(CollapseWs(s))

\* the arguments of insertIntoDB in the head loop: body defaults to ""
HeadArgs(u, chunk) == [url |-> u, head |-> chunk, body |-> <<>>]

\* BodyArgs with a slip: the entry carries the first head chunk, not the head string
BodyArgsHeadChunk(u, hs, chunk) ==
    [url |-> u, head |-> Head(chunkText(hs, IngestChunkSize)), body |-> chunk]

\* the arguments of insertIntoDB in the body loop
BodyArgs(u, hs, chunk) == [url |-> u, head |-> hs, body |-> chunk]

\* `${url}-${Date.now()}-${Math.random().toString(36).substr(2, 9)}`: the url and
\* a suffix made of a reading of the wall clock and a random string
UniqueId(u, suffix) == <<u, suffix>>

StoreIds == {e.id : e \in store}

\* the caller calls ingest(u)
IngestCall(u) ==
    /\ pc = "idle"
    /\ ingestCalls < MaxIngests
    /\ ingestCalls' = ingestCalls + 1
    /\ url' = u
    /\ logged' = FALSE
    /\ headString' = <<>> /\ headChunks' = <<>> /\ bodyChunks' = <<>>
    /\ phase' = "head" /\ idx' = 0
    /\ pc' = "scrape"
    /\ UNCHANGED <<scrapeCount, pending, store, unhandled, chatVars,
                   chunkVars, linkVars>>

\* scrapeWebPage(url) throws before any fetch, the url not being an http url:
\* ingest's catch logs
ScrapeInvalidUrl ==
    /\ pc = "scrape"
    /\ ~StartsWithHttp(url)
    /\ logged' = TRUE
    /\ pc' = "idle"
    /\ UNCHANGED <<url, headString, headChunks, bodyChunks, phase, idx, ingestCalls,
                   scrapeCount, pending, store, unhandled, chatVars, chunkVars,
                   linkVars>>

\* axios.get(url) is called and fails; scrapeWebPage rethrows, ingest's catch logs
ScrapeFetchFails ==
    /\ pc = "scrape"
    /\ StartsWithHttp(url)
    /\ scrapeCount' = [scrapeCount EXCEPT ![url] = @ + 1]
    /\ logged' = TRUE
    /\ pc' = "idle"
    /\ UNCHANGED <<url, headString, headChunks, bodyChunks, phase, idx, ingestCalls,
                   pending, store, unhandled, chatVars, chunkVars, linkVars>>

\* axios.get(url) is called and scrapeWebPage returns the page; ingest serialises
\* the head and chunks both texts
ScrapeOk ==
    /\ pc = "scrape"
    /\ StartsWithHttp(url)
    /\ \E page \in PagesAt(url) :
        LET hc == chunkText(page.headJson, IngestChunkSize)
            bc == chunkText(CleanBody(page.body), IngestChunkSize)
        IN  /\ headString' = page.headJson
            /\ headChunks' = hc
            /\ bodyChunks' = bc
            /\ phase' = IF hc # <<>> THEN "head" ELSE "body"
            /\ idx' = 1
            /\ pc' = IF hc # <<>> \/ bc # <<>> THEN "insert" ELSE "idle"
    /\ scrapeCount' = [scrapeCount EXCEPT ![url] = @ + 1]
    /\ UNCHANGED <<url, logged, ingestCalls, pending, store, unhandled,
                   chatVars, chunkVars, linkVars>>

\* an awaited call of the loops rejects (the embedding, or getOrCreateCollection
\* inside insertIntoDB): ingest's catch logs and ingest returns
AwaitThrow ==
    /\ pc = "insert"
    /\ logged' = TRUE
    /\ pc' = "idle"
    /\ UNCHANGED <<url, headString, headChunks, bodyChunks, phase, idx, ingestCalls,
                   scrapeCount, pending, store, unhandled, chatVars,
                   chunkVars, linkVars>>

\* one turn of a loop: the embedding returns; in insertIntoDB getOrCreateCollection
\* returns, the id is made, collection.add is called and not awaited; insertIntoDB
\* returns and the loop goes on
InsertAdd ==
    /\ pc = "insert"
    /\ \E suffix \in 1..NumSuffix :
        LET args == IF phase = "head" THEN HeadArgs(url, headChunks[idx])
                    ELSE BodyArgs(url, headString, bodyChunks[idx])
        IN  pending' = pending (+) SetToBag({[id |-> UniqueId(url, suffix),
                                                 url |-> args.url,
                                                 head |-> args.head,
                                                 body |-> args.body]})
    /\ IF idx < Len(IF phase = "head" THEN headChunks ELSE bodyChunks)
       THEN idx' = idx + 1 /\ phase' = phase /\ pc' = "insert"
       ELSE IF phase = "head" /\ bodyChunks # <<>>
       THEN idx' = 1 /\ phase' = "body" /\ pc' = "insert"
       ELSE idx' = idx /\ phase' = phase /\ pc' = "idle"
    /\ UNCHANGED <<url, headString, headChunks, bodyChunks, logged, ingestCalls,
                   scrapeCount, store, unhandled, chatVars, chunkVars, linkVars>>

\* the store completes a collection.add; an id it already holds is not added again
AddResolve(r) ==
    /\ store' = IF r.id \in StoreIds THEN store ELSE store \cup {r}
    /\ pending' = pending (-) SetToBag({r})
    /\ UNCHANGED <<pc, ingestVars, unhandled, chatVars, chunkVars, linkVars>>

\* a collection.add rejects: nobody awaits the promise, the rejection is unhandled
AddReject(r) ==
    /\ unhandled' = TRUE
    /\ pending' = pending (-) SetToBag({r})
    /\ UNCHANGED <<pc, ingestVars, store, chatVars, chunkVars, linkVars>>

Init ==
    /\ pc = "idle"
    /\ MainStart
    /\ ChunkOff
    /\ LinkOff

Next ==
    \/ \E u \in Urls : IngestCall(u)
    \/ ScrapeInvalidUrl
    \/ ScrapeFetchFails
    \/ ScrapeOk
    \/ AwaitThrow
    \/ InsertAdd
    \/ \E r \in BagToSet(pending) : AddResolve(r)
    \/ \E r \in BagToSet(pending) : AddReject(r)

Spec == Init /\ [][Next]_vars

---------------------------------------------------------------------------
(* chat, against a collection that earlier runs have filled *)

\* nResults of collection.query
NResults == 20

\* entries in the collection when the process starts
MaxStore == 3

\* the metadata an entry of the collection can carry
StoredMetas ==
    {[url |-> u, head |-> h, body |-> b] :
        u \in {"http://a", "http://b"}, h \in {<<>>, <<"H">>}, b \in {<<>>, <<"B">>}}

Min(a, b) == IF a <= b THEN a ELSE b

\* collectionResult.metadatas[0] for some ranking of the collection: the metadata
\* of its nResults nearest entries, nearest first
Rankings ==
    LET n == Min(NResults, Cardinality(store))
    IN  {[i \in 1..n |-> [url |-> f[i].url, head |-> f[i].head, body |-> f[i].body]] :
            f \in {g \in [1..n -> store] : \A i, j \in 1..n : g[i] = g[j] => i = j}}

\* collectionResult.metadatas[0].map((metadata) => metadata?.head).join("\n")
ChatHead(rs) == JoinNl([i \in 1..Len(rs) |-> rs[i].head])

\* ChatBody with a slip: the empty bodies are not filtered out
ChatBodyUnfiltered(rs) == JoinNl([i \in 1..Len(rs) |-> rs[i].body])

\* ....map((document) => document?.body).filter((body) => body !== "").join("\n")
ChatBody(rs) ==
    JoinNl(SelectSeq([i \in 1..Len(rs) |-> rs[i].body], LAMBDA b : b # <<>>))

\* ....map((metadata) => metadata?.url).join("\n")
ChatUrl(rs) == JoinNl([i \in 1..Len(rs) |-> <<rs[i].url>>])

\* the caller calls chat(query): the embedding of the query is asked for
ChatCall ==
    /\ pc \in {"idle", "failed"}
    /\ pc' = "query"
    /\ results' = <<>>
    /\ prompt' = <<>>
    /\ UNCHANGED <<ingestVars, pending, store, unhandled, chunkVars, linkVars>>

\* the embedding, the collection and the query return; the context is joined and
\* openai.chat.completions.create is called with it
ChatQuery ==
    /\ pc = "query"
    /\ \E rs \in Rankings :
        /\ results' = rs
        /\ prompt' = <<[url |-> ChatUrl(rs), head |-> ChatHead(rs), body |-> ChatBody(rs)]>>
    /\ pc' = "complete"
    /\ UNCHANGED <<ingestVars, pending, store, unhandled, chunkVars, linkVars>>

\* an awaited call of chat rejects: chat has no catch, the caller gets the error
ChatThrow ==
    /\ pc \in {"query", "complete"}
    /\ pc' = "failed"
    /\ UNCHANGED <<ingestVars, pending, store, unhandled, chatVars, chunkVars, linkVars>>

\* the chat model answers and chat returns
ChatReturn ==
    /\ pc = "complete"
    /\ pc' = "idle"
    /\ UNCHANGED <<ingestVars, pending, store, unhandled, chatVars, chunkVars, linkVars>>

InitChat ==
    /\ pc = "idle"
    /\ url = None /\ headString = <<>> /\ headChunks = <<>> /\ bodyChunks = <<>>
    /\ phase = "head" /\ idx = 0 /\ logged = FALSE /\ ingestCalls = 0
    /\ scrapeCount = [u \in Urls |-> 0]
    /\ pending = EmptyBag /\ unhandled = FALSE
    /\ results = <<>> /\ prompt = <<>>
    /\ \E k \in 0..MaxStore : \E f \in [1..k -> StoredMetas] :
           store = {[id |-> UniqueId(f[i].url, i), url |-> f[i].url,
                     head |-> f[i].head, body |-> f[i].body] : i \in 1..k}
    /\ ChunkOff
    /\ LinkOff

NextChat == ChatCall \/ ChatQuery \/ ChatThrow \/ ChatReturn

SpecChat == InitChat /\ [][NextChat]_vars

---------------------------------------------------------------------------
(* The claims about ingest and insertIntoDB, under Spec *)

\* C1: the page of a url is fetched at most once, however often the caller
\* ingests the url.
C1_ExtractAtMostOnce == \A u \in Urls : scrapeCount[u] <= 1

\* C2: no failure during an ingestion escapes ingest uncaught.
C2_NoFailureEscapes == unhandled = FALSE

\* C3: the id of every collection.add differs from every id the store holds.
C3_InsertIdsFresh == \A r \in BagToSet(pending) : r.id \notin StoreIds

Range(q) == {q[i] : i \in 1..Len(q)}

\* C4: every stored entry is a head-chunk entry (head a chunk of the page's
\* serialised head, body empty) or a body-chunk entry (body a chunk of the page's
\* body, head the whole serialised head), and its url is a url that was ingested
\* and serves that page.
C4_EntryShapes ==
    \A e \in store :
        /\ scrapeCount[e.url] > 0
        /\ \E page \in PagesAt(e.url) :
            \/ /\ e.body = <<>>
               /\ e.head \in Range(chunkText(page.headJson, IngestChunkSize))
            \/ /\ e.body # <<>>
               /\ e.body \in Range(chunkText(CleanBody(page.body), IngestChunkSize))
               /\ e.head = page.headJson

\* C4's case: a head-chunk entry whose head is not the whole head, and a body-chunk entry
C4_Witness ==
    \E e1, e2 \in store :
        /\ e1.url = e2.url
        /\ e1.body = <<>> /\ e2.body # <<>>
        /\ e1.head # e2.head

\* C10: when ingest has returned without logging a failure, the store holds an
\* entry for every head chunk and every body chunk of the page.
C10_EntriesStoredOnReturn ==
    (pc = "idle" /\ ingestCalls > 0 /\ ~logged) =>
        /\ \A i \in 1..Len(headChunks) :
               \E e \in store : e.url = url /\ e.head = headChunks[i] /\ e.body = <<>>
        /\ \A i \in 1..Len(bodyChunks) :
               \E e \in store : e.url = url /\ e.head = headString /\ e.body = bodyChunks[i]

---------------------------------------------------------------------------
(* The claim about chat, under SpecChat *)

\* the lines of the text that joins the given field of every result, in result
\* order; with skipEmpty the results whose field is empty give no line
RECURSIVE JoinedField(_, _, _)
JoinedField(rs, field, skipEmpty) ==
    IF rs = <<>> THEN <<>>
    ELSE LET v    == IF field = "url" THEN <<Head(rs).url>> ELSE Head(rs)[field]
             rest == JoinedField(Tail(rs), field, skipEmpty)
             more == \E i \in 2..Len(rs) : ~skipEmpty \/ rs[i][field] # <<>>
         IN  IF skipEmpty /\ v = <<>> THEN rest
             ELSE IF more THEN v \o <<"\n">> \o rest
             ELSE v

\* C8: once the chat model is called, headText joins every result's head, urlList
\* every result's url, bodyText exactly the non-empty bodies, all in result order;
\* with no results the three are empty and the chat model is called all the same.
C8_ContextFromResults ==
    /\ pc = "complete" => prompt # <<>>
    /\ prompt # <<>> =>
        /\ prompt[1].head = JoinedField(results, "head", FALSE)
        /\ prompt[1].url = JoinedField(results, "url", FALSE)
        /\ prompt[1].body = JoinedField(results, "body", TRUE)
        /\ results = <<>> =>
               prompt[1].head = <<>> /\ prompt[1].url = <<>> /\ prompt[1].body = <<>>

\* C8's case: the chat model is called with results of which one has an empty
\* body and lies between two that have one
C8_Witness ==
    /\ pc = "complete"
    /\ Len(results) = 3
    /\ results[1].body # <<>> /\ results[2].body = <<>> /\ results[3].body # <<>>
    /\ prompt[1].body = <<"B", "\n", "B">>

---------------------------------------------------------------------------
(* The claim about the links scrapeWebPage returns, under SpecLinks *)

\* C9: every link has no fragment and no trailing slash, and normalising it
\* again returns it unchanged.
C9_LinksNormalised ==
    \A n \in internalLinks \cup externalLinks :
        /\ \A i \in 1..Len(n) : n[i] # "#"
        /\ n[Len(n)] # "/"
        /\ NormalizeUrl(Resolve(n)) = n

---------------------------------------------------------------------------
(* The claims about chunkText, under SpecChunk *)

RECURSIVE Concat(_)
Concat(ss) == IF ss = <<>> THEN <<>> ELSE Head(ss) \o Concat(Tail(ss))

\* a string without its whitespace
StripWs(s) == SelectSeq(s, LAMBDA c : ~IsWs(c))

\* the sentences of a text, in order: those of its first paragraph, then the next
RECURSIVE SentencesOf(_)
SentencesOf(paragraphs) ==
    IF paragraphs = <<>> THEN <<>>
    ELSE SplitSentences(Head(paragraphs)) \o SentencesOf(Tail(paragraphs))

AllSentences(t) == SentencesOf(SplitParagraphs(t))

IsSubstring(x, s) ==
    \E i \in 1..(Len(s) + 1) : i + Len(x) - 1 <= Len(s) /\ SubSeq(s, i, i + Len(x) - 1) = x

\* C5: every chunk is at most maxChunkSize long, unless it is one sentence of
\* the text that is itself longer than maxChunkSize.
C5_ChunkWithinMax ==
    chunkPc = "done" =>
        \A i \in 1..Len(chunks) :
            \/ StrLen(chunks[i]) <= maxChunkSize
            \/ \E k \in 1..Len(AllSentences(text)) :
                   /\ Trim(AllSentences(text)[k]) = chunks[i]
                   /\ StrLen(AllSentences(text)[k]) > maxChunkSize

\* C6: no chunk is the empty string, and the empty text has no chunks.
C6_NoEmptyChunk ==
    chunkPc = "done" =>
        /\ \A i \in 1..Len(chunks) : chunks[i] # <<>>
        /\ (text = <<>> => chunks = <<>>)

\* C7: the chunks in order reproduce the text up to whitespace; every chunk
\* boundary falls on a sentence boundary of the text (no sentence is split,
\* dropped, duplicated or reordered); every sentence is whole inside a chunk.
C7_ChunksReproduceText ==
    chunkPc = "done" =>
        LET S == AllSentences(text)
        IN  /\ StripWs(Concat(chunks)) = StripWs(text)
            /\ \A k \in 1..Len(chunks) :
                   \E m \in 0..Len(S) :
                       StripWs(Concat(SubSeq(chunks, 1, k)))
                           = StripWs(Concat(SubSeq(S, 1, m)))
            /\ \A j \in 1..Len(S) :
                   Trim(S[j]) # <<>> =>
                       \E k \in 1..Len(chunks) : IsSubstring(Trim(S[j]), chunks[k])

\* C7's case: two paragraphs, three sentences or more, and a flush between them
C7_Witness ==
    /\ chunkPc = "done"
    /\ Len(chunks) >= 2
    /\ Len(SplitParagraphs(text)) >= 2
    /\ Len(AllSentences(text)) >= 3
    /\ \E k \in 1..Len(chunks) : IsSubstring(<<".", " ", "a">>, chunks[k])

===========================================================================
